---- MODULE Spec2Model ----
(***************************************************************************)
(* Model of market-factor-sim: the CSE raw-data stage,                     *)
(* scripts/cse/prepare_and_ingest.py (classify_and_summarize and           *)
(* normalize_has_data) over a raw store of JSON/text dumps, followed by    *)
(* the ticker selector (scripts/select_tickers.py), the assembler          *)
(* (scripts/assemble_prices.py), the daily returns                         *)
(* (scripts/compute_daily_returns.py) and the chunk loop of the ETL        *)
(* runner (src/etl/cli.py with download.py, normalize.py and load.py).     *)
(*                                                                         *)
(* A file's content is a sequence of lexical tokens.  Punctuation tokens   *)
(* are "[", "]", "{", "}", ",", " " (whitespace) and "x" (a character that *)
(* is not JSON, e.g. HTML around a pasted array).  Every other token is an *)
(* atom: the text of one complete JSON scalar or of one complete JSON      *)
(* object with scalar members (a point record).  A "{" ... "}" group is an *)
(* object whose member keys are folded into the member values (the keys    *)
(* are none of the names the code looks up).  Atoms contain no bracket.    *)
(***************************************************************************)
EXTENDS Integers, Sequences, FiniteSets, TLC

\* ------------------------------------------------------------------ bounds
MaxFiles == 2
MaxRecs == 2
MaxLen == 4

\* --------------------------------------------------------------- JSON values
\* One record shape for every JSON value, so that any two values compare.
JNull == [t |-> "null", n |-> 0, d |-> 0, s |-> "", keys |-> <<>>, items |-> <<>>]
JDec(n, d) == [t |-> "num", n |-> n, d |-> d, s |-> "", keys |-> <<>>, items |-> <<>>]
JNum(n) == JDec(n, 0)
JStr(s) == [t |-> "str", n |-> 0, d |-> 0, s |-> s, keys |-> <<>>, items |-> <<>>]
JList(items) == [t |-> "list", n |-> 0, d |-> 0, s |-> "", keys |-> <<>>, items |-> items]
JDict(keys, vals) == [t |-> "dict", n |-> 0, d |-> 0, s |-> "", keys |-> keys, items |-> vals]

\* Python None: what dict.get returns for an absent key, and what JSON null loads as.
None == JNull

\* Python truthiness of a loaded JSON value (the operand test of `or` / `if td`).
Truthy(v) ==
  CASE v.t = "null" -> FALSE
    [] v.t = "num" -> v.n # 0 \/ v.d # 0
    [] v.t = "str" -> v.s # ""
    [] v.t = "list" -> v.items # <<>>
    [] OTHER -> v.keys # <<>>

\* Python `a or b`.
PyOr(a, b) == IF Truthy(a) THEN a ELSE b

\* dict.get(k): the value of the last member named k, None when there is none.
RECURSIVE GetFrom(_, _, _)
GetFrom(it, k, i) ==
  IF i = 0 THEN None
  ELSE IF it.keys[i] = k THEN it.items[i] ELSE GetFrom(it, k, i - 1)

Get(it, k) == GetFrom(it, k, Len(it.keys))

\* ---------------------------------------------------------------- dates
MsPerDay == 86400000

\* date.isoformat() of the day `day` days after 1970-01-01.
IsoTable == <<"1970-01-01", "1970-01-02", "1970-01-03", "1970-01-04">>
isoformat(day) == IsoTable[day + 1]
\* The calendar day an ISO string names (ISO strings order as their days do).
IsoDay(s) == CHOOSE day \in 0..(Len(IsoTable) - 1) : IsoTable[day + 1] = s

\* The strings int() accepts, with their values.
NumericStrings == {"86400000", "0"}
StrValue(s) == IF s = "0" THEN 0 ELSE MsPerDay

\* int(td): [ok, n]; raises (ok = FALSE) on None, on a non-numeric string, on a
\* list or dict.  A float truncates.
PyInt(v) ==
  CASE v.t = "num" -> [ok |-> TRUE, n |-> v.n]
    [] v.t = "str" /\ v.s \in NumericStrings -> [ok |-> TRUE, n |-> StrValue(v.s)]
    [] OTHER -> [ok |-> FALSE, n |-> 0]

\* datetime.utcfromtimestamp(int(td)/1000.0).date(): [ok, day].  Raises when
\* int() raises or the timestamp is outside the range datetime supports (the
\* days of IsoTable stand for that range; no input of the model leaves it).
utcdate(td) ==
  LET Date(i) ==
        IF i.ok /\ (i.n \div MsPerDay) \in 0..(Len(IsoTable) - 1)
          THEN [ok |-> TRUE, day |-> i.n \div MsPerDay]
          ELSE [ok |-> FALSE, day |-> 0]
  IN Date(PyInt(td))

\* ------------------------------------------------------------- atoms
\* Point records, as the objects they load to.
Rec(keys, vals) == JDict(keys, vals)

AtomValue(tok) ==
  CASE tok = "n" -> JNum(7)
    [] tok = "null" -> JNull
    [] tok = "rOk" -> Rec(<<"d", "close", "shareVolume">>,
                          <<JNum(2 * MsPerDay + 3600000), JDec(5, 5), JNum(10)>>)
    [] tok = "rEarly" -> Rec(<<"tradeDate", "d", "open", "close", "v">>,
                             <<JNum(MsPerDay), JNum(3 * MsPerDay), JNum(4), JNum(0), JNum(9)>>)
    [] tok = "rStrDate" -> Rec(<<"date", "close", "tradeVolume">>,
                               <<JStr("86400000"), JStr("abc"), JNum(3)>>)
    [] tok = "rEpoch" -> Rec(<<"tradeDate", "d", "close">>,
                             <<JNum(0), JNum(2 * MsPerDay), JNum(6)>>)
    [] tok = "rEpochOnly" -> Rec(<<"tradeDate", "close">>, <<JNum(0), JNum(6)>>)
    [] tok = "rV" -> Rec(<<"d", "close", "v">>, <<JNum(MsPerDay), JNull, JNum(3)>>)
    [] tok = "rV0" -> Rec(<<"d", "v">>, <<JNum(3 * MsPerDay), JNum(0)>>)
    [] tok = "rBadDate" -> Rec(<<"tradeDate", "close">>, <<JStr("abc"), JNum(5)>>)
    [] tok = "rNoClose" -> Rec(<<"d", "turnover">>, <<JNum(MsPerDay), JNum(100)>>)
    [] tok = "rFrac" -> Rec(<<"d", "close", "shareVolume">>,
                            <<JNum(2 * MsPerDay), JNum(5), JDec(1, 5)>>)
    [] OTHER -> JStr("abc")

Punct == {"[", "]", "{", "}", ",", " ", "x"}
RecordAtoms == {"rOk", "rEarly", "rStrDate", "rEpoch", "rEpochOnly", "rV", "rV0",
                "rBadDate", "rNoClose", "rFrac"}
ScalarAtoms == {"n", "null"}
Atoms == RecordAtoms \cup ScalarAtoms

\* ------------------------------------------------------------- json.loads
\* Recursive descent over the tokens with whitespace removed (JSON allows
\* whitespace between any two tokens).  A result is [ok, val, next].
PFail == [ok |-> FALSE, val |-> JNull, next |-> 0]

RECURSIVE ParseValue(_, _)
RECURSIVE ParseElems(_, _, _, _)

ParseValue(t, i) ==
  IF i > Len(t) THEN PFail
  ELSE IF t[i] \in Atoms THEN [ok |-> TRUE, val |-> AtomValue(t[i]), next |-> i + 1]
  ELSE IF t[i] = "[" THEN
    IF i + 1 <= Len(t) /\ t[i + 1] = "]"
      THEN [ok |-> TRUE, val |-> JList(<<>>), next |-> i + 2]
      ELSE ParseElems(t, i + 1, <<>>, "]")
  ELSE IF t[i] = "{" THEN
    IF i + 1 <= Len(t) /\ t[i + 1] = "}"
      THEN [ok |-> TRUE, val |-> JDict(<<>>, <<>>), next |-> i + 2]
      ELSE ParseElems(t, i + 1, <<>>, "}")
  ELSE PFail

ParseElems(t, i, acc, close) ==
  LET Made(items) ==
        IF close = "]" THEN JList(items)
        ELSE JDict([k \in 1..Len(items) |-> "member"], items)
      After(v) ==
        IF ~v.ok \/ v.next > Len(t) THEN PFail
        ELSE IF t[v.next] = "," THEN ParseElems(t, v.next + 1, Append(acc, v.val), close)
        ELSE IF t[v.next] = close
          THEN [ok |-> TRUE, val |-> Made(Append(acc, v.val)), next |-> v.next + 1]
        ELSE PFail
  IN After(ParseValue(t, i))

IsSpace(c) == c = " "
NoSpace(txt) == SelectSeq(txt, LAMBDA c : ~IsSpace(c))

\* json.loads(txt): [ok, val]; ok = FALSE when it raises.
JsonLoads(txt) ==
  LET Whole(t, r) ==
        IF r.ok /\ r.next = Len(t) + 1
          THEN [ok |-> TRUE, val |-> r.val]
          ELSE [ok |-> FALSE, val |-> JNull]
      Loads(t) == Whole(t, ParseValue(t, 1))
  IN Loads(NoSpace(txt))

\* ------------------------------------------------------------- raw store
\* RAW = <cwd>/data/cse/raw; MANIFEST = RAW/manifest.csv; NORMAL = <cwd>/data/cse/normalized.
\* A path below RAW is [dir, fn]; a file name is [stem, ext].
Name(stem, ext) == [stem |-> stem, ext |-> ext]
Path(dir, fn) == [dir |-> dir, fn |-> fn]

\* The file names of the model, in the order sorted() gives them (code points:
\* "A.json" < "A.txt" < "B.JSON" < "manifest.csv" < "notes.csv").
FileNames == <<Name("A", ".json"), Name("A", ".txt"), Name("B", ".JSON"),
               Name("manifest", ".csv"), Name("notes", ".csv")>>
\* The directories of RAW in the order os.walk visits them (top-down).
Dirs == <<"", "sub", "sub/deep">>

MANIFEST == Path("", Name("manifest", ".csv"))

\* The places a raw dump may be at.
RawPaths == {Path("", Name("A", ".json")), Path("", Name("B", ".JSON")),
             Path("sub", Name("A", ".txt")), Path("sub/deep", Name("A", ".json")),
             Path("", Name("notes", ".csv"))}

\* What a directory entry is: a regular readable file, a file open() refuses
\* (PermissionError), or an entry stat() fails on (a dangling symbolic link,
\* which os.walk lists among the files).
FileKinds == {"file", "noread", "dangling"}

AllSlots ==
  [k \in 1..(Len(Dirs) * Len(FileNames)) |->
     Path(Dirs[((k - 1) \div Len(FileNames)) + 1], FileNames[((k - 1) % Len(FileNames)) + 1])]

\* str.lower() of an extension.
Lower(ext) == IF ext = ".JSON" THEN ".json" ELSE ext

\* Faulty variant of IsRawName: .csv passes the test too (so would manifest.csv).
IsRawName_AnyExt(fn) == Lower(fn.ext) \in {".json", ".txt", ".csv"}
\* fn.lower().endswith((".json", ".txt"))
IsRawName(fn) == Lower(fn.ext) \in {".json", ".txt"}

\* ------------------------------------------------------------- classifier
\* txt.strip()
RECURSIVE LStrip(_)
LStrip(txt) == IF txt # <<>> /\ IsSpace(Head(txt)) THEN LStrip(Tail(txt)) ELSE txt
RECURSIVE RStrip(_)
RStrip(txt) ==
  IF txt # <<>> /\ IsSpace(txt[Len(txt)]) THEN RStrip(SubSeq(txt, 1, Len(txt) - 1)) ELSE txt
Strip(txt) == RStrip(LStrip(txt))

Contains(txt, c) == \E i \in 1..Len(txt) : txt[i] = c
\* 1-based str.find / str.rfind of a character that occurs in txt.
Find(txt, c) == CHOOSE i \in 1..Len(txt) : txt[i] = c /\ \A k \in 1..(i - 1) : txt[k] # c
RFind(txt, c) == CHOOSE i \in 1..Len(txt) : txt[i] = c /\ \A k \in (i + 1)..Len(txt) : txt[k] # c

\* try: j = json.loads(...) except Exception: j = None
ValueOrNone(loaded) == IF loaded.ok THEN loaded.val ELSE None
\* Faulty variant of LoadOrSalvage: no bracket fallback.
LoadOrSalvage_NoSalvage(txt) == ValueOrNone(JsonLoads(txt))
\* The try/except around json.loads with the bracket fallback in the except
\* branch: the loaded value, or None.
LoadOrSalvage(txt) ==
  LET Salvage(direct) ==
        IF direct.ok THEN direct.val
        ELSE IF Contains(txt, "[") /\ Contains(txt, "]")
          THEN ValueOrNone(JsonLoads(SubSeq(txt, Find(txt, "["), RFind(txt, "]"))))
        ELSE None
  IN Salvage(JsonLoads(txt))

\* td = it.get("tradeDate") or it.get("d") or it.get("date")
TradeDateOf(it) == PyOr(PyOr(Get(it, "tradeDate"), Get(it, "d")), Get(it, "date"))

\* The dates list built over the record list: one day per mapping record whose
\* td is not None and converts.
RECURSIVE DatesOf(_)
DatesOf(recs) ==
  LET Converted(conv) == IF conv.ok THEN {conv.day} ELSE {}
      DateOf(it, td) ==
        IF it.t = "dict" /\ td # None THEN Converted(utcdate(td)) ELSE {}
  IN IF recs = <<>> THEN {}
     ELSE DateOf(Head(recs), TradeDateOf(Head(recs))) \cup DatesOf(Tail(recs))

Min(S) == CHOOSE x \in S : \A y \in S : x <= y
Max(S) == CHOOSE x \in S : \A y \in S : x >= y

Summary(status, recs, sd, ed) ==
  [status |-> status, rows |-> recs, start_date |-> sd, end_date |-> ed]

\* The rule for a record list: length 0 is empty_array, otherwise has_data with
\* the min and max of the dates.
ListRule(recs) ==
  LET HasData(dates) ==
        IF dates # {}
          THEN Summary("has_data", Len(recs), isoformat(Min(dates)), isoformat(Max(dates)))
          ELSE Summary("has_data", Len(recs), "", "")
  IN IF Len(recs) = 0 THEN Summary("empty_array", 0, "", "")
     ELSE HasData(DatesOf(recs))

\* Faulty variant of FirstList: the loop does not break, the last list wins.
FirstList_Last(j) ==
  IF \E i \in 1..Len(j.items) : j.items[i].t = "list"
    THEN CHOOSE i \in 1..Len(j.items) :
           j.items[i].t = "list" /\ \A k \in (i + 1)..Len(j.items) : j.items[k].t # "list"
    ELSE 0
\* The index of the first list among a dict's values, 0 when there is none.
FirstList(j) ==
  IF \E i \in 1..Len(j.items) : j.items[i].t = "list"
    THEN CHOOSE i \in 1..Len(j.items) :
           j.items[i].t = "list" /\ \A k \in 1..(i - 1) : j.items[k].t # "list"
    ELSE 0

\* The record list of a loaded value (the list itself, or the first list among
\* a dict's values): [ok, recs]; ok = FALSE when there is none.  The classifier
\* and the normalizer find it by the same code.
RecordsOf(j) ==
  LET At(k) == IF k # 0 THEN [ok |-> TRUE, recs |-> j.items[k].items]
               ELSE [ok |-> FALSE, recs |-> <<>>]
  IN CASE j.t = "list" -> [ok |-> TRUE, recs |-> j.items]
       [] j.t = "dict" -> At(FirstList(j))
       [] OTHER -> [ok |-> FALSE, recs |-> <<>>]

\* Faulty variant of ShapeOf: recs is set to len(j) before the dict is searched.
ShapeOf_CountKeys(j) ==
  LET Shape(records) ==
        IF records.ok THEN ListRule(records.recs)
        ELSE Summary("invalid_json", Len(j.items), "", "")
  IN Shape(RecordsOf(j))
\* Shape analysis of a loaded value.
ShapeOf(j) ==
  LET Shape(records) ==
        IF records.ok THEN ListRule(records.recs) ELSE Summary("invalid_json", 0, "", "")
  IN Shape(RecordsOf(j))

\* os.path.getsize: a token stands for one byte or more.
SizeOf(f) == Len(f.content)

\* The body of the per-file try block: status, recs, start_date, end_date.
ClassifyFile(f) ==
  LET Loaded(j) == IF j = None THEN Summary("invalid_json", 0, "", "") ELSE ShapeOf(j)
      Read(txt) ==
        IF txt = <<>> THEN Summary("empty_file", 0, "", "") ELSE Loaded(LoadOrSalvage(txt))
  IN IF SizeOf(f) = 0 THEN Summary("empty_file", 0, "", "")
     ELSE IF f.kind # "file" THEN Summary("error", 0, "", "")
     ELSE Read(Strip(f.content))

\* One manifest row: (ticker, rel, status, recs, start_date, end_date, size).
Entry(p, f) ==
  LET Row(c) ==
        [ticker |-> p.fn.stem, relative_path |-> p, status |-> c.status, rows |-> c.rows,
         start_date |-> c.start_date, end_date |-> c.end_date, filesize_bytes |-> SizeOf(f)]
  IN Row(ClassifyFile(f))

\* ------------------------------------------------------------- normalizer
\* content[s:e] with s = content.find("["), e = content.rfind("]") + 1: find
\* gives -1 for a missing "[" (the slice then starts at the last character)
\* and rfind + 1 gives 0 for a missing "]" (the slice is then empty).
SalvageSlice(content) ==
  IF ~Contains(content, "]") THEN <<>>
  ELSE IF Contains(content, "[") THEN SubSeq(content, Find(content, "["), RFind(content, "]"))
  ELSE IF RFind(content, "]") = Len(content) THEN <<"]">>
  ELSE <<>>

\* The two nested try blocks: [ok, val]; ok = FALSE is the "[SKIP] Could not parse" case.
NormLoad(f) ==
  LET Salvage(direct) == IF direct.ok THEN direct ELSE JsonLoads(SalvageSlice(f.content))
  IN IF f.kind # "file" THEN [ok |-> FALSE, val |-> JNull]
     ELSE Salvage(JsonLoads(f.content))

\* trade_date of a record: the ISO date when td is truthy and converts, else "".
TradeDateStr(it) ==
  LET Iso(conv) == IF conv.ok THEN isoformat(conv.day) ELSE ""
      Str(td) == IF Truthy(td) THEN Iso(utcdate(td)) ELSE ""
  IN Str(TradeDateOf(it))

\* close_ = it.get("close") if it.get("close") is not None else (it.get("v") or None)
CloseOf(it) ==
  LET Close(c) == IF c # None THEN c ELSE PyOr(Get(it, "v"), None)
  IN Close(Get(it, "close"))

\* The dict appended to rows for one mapping record.
BuildRow(ticker, it) ==
  [ticker |-> ticker,
   trade_date |-> TradeDateStr(it),
   open |-> Get(it, "open"),
   high |-> Get(it, "high"),
   low |-> Get(it, "low"),
   close |-> CloseOf(it),
   turnover |-> Get(it, "turnover"),
   share_volume |-> PyOr(Get(it, "shareVolume"), Get(it, "shareVolume")),
   trade_volume |-> PyOr(Get(it, "tradeVolume"), Get(it, "tradeVolume"))]

RECURSIVE BuildRows(_, _)
BuildRows(ticker, recs) ==
  IF recs = <<>> THEN <<>>
  ELSE IF Head(recs).t = "dict"
    THEN <<BuildRow(ticker, Head(recs))>> \o BuildRows(ticker, Tail(recs))
    ELSE BuildRows(ticker, Tail(recs))

\* Series.isnull() of a cell.
IsNull(v) == v.t = "null"

\* df[df["trade_date"].astype(str) != ""] then df[~df["close"].isnull()]
KeepRow(r) == r.trade_date # "" /\ ~IsNull(r.close)
FilterRows(rows) == SelectSeq(rows, KeepRow)

\* pd.to_numeric(errors="coerce") of a cell: a number stays, a numeric string
\* becomes its number, anything else becomes NaN (null).
ToNumeric(v) ==
  CASE v.t = "num" -> v
    [] v.t = "str" /\ v.s \in NumericStrings -> JNum(StrValue(v.s))
    [] OTHER -> JNull

\* .astype("Int64") raises TypeError (cannot safely cast non-equivalent
\* float64 to int64) when a value of the column has a fractional part.
Int64Raises(col) == \E i \in 1..Len(col) : col[i].t = "num" /\ col[i].d # 0

CoerceRow(r) ==
  [r EXCEPT !.open = ToNumeric(@), !.high = ToNumeric(@), !.low = ToNumeric(@),
            !.close = ToNumeric(@), !.turnover = ToNumeric(@),
            !.share_volume = ToNumeric(@), !.trade_volume = ToNumeric(@)]
CoerceRows(rows) == [i \in 1..Len(rows) |-> CoerceRow(rows[i])]

\* df.sort_values("trade_date"): insertion of each row after the rows whose
\* date is not later (rows of equal date keep their order).
RECURSIVE InsertRow(_, _)
InsertRow(r, sorted) ==
  IF sorted = <<>> THEN <<r>>
  ELSE IF IsoDay(Head(sorted).trade_date) <= IsoDay(r.trade_date)
    THEN <<Head(sorted)>> \o InsertRow(r, Tail(sorted))
    ELSE <<r>> \o sorted
RECURSIVE SortRows(_)
SortRows(rows) ==
  IF rows = <<>> THEN <<>>
  ELSE InsertRow(rows[Len(rows)], SortRows(SubSeq(rows, 1, Len(rows) - 1)))

\* What one has_data manifest row leads to: tag is the diagnostic printed
\* ("[SKIP]", "[NO ROWS]", "WROTE") or "raise" when the cast raises; rows is
\* the frame written for tag "WROTE".
NormalizeEntry(r, store) ==
  LET Frame(df) ==
        IF Int64Raises([i \in 1..Len(df) |-> df[i].share_volume])
             \/ Int64Raises([i \in 1..Len(df) |-> df[i].trade_volume])
          THEN [tag |-> "raise", rows |-> <<>>]
          ELSE [tag |-> "WROTE", rows |-> SortRows(df)]
      Built(rows) ==
        IF rows = <<>> THEN [tag |-> "[NO ROWS]", rows |-> <<>>]
        ELSE Frame(CoerceRows(FilterRows(rows)))
      Records(records) ==
        IF ~records.ok THEN [tag |-> "[SKIP]", rows |-> <<>>]
        ELSE Built(BuildRows(r.ticker, records.recs))
      Loaded(j) ==
        IF ~j.ok THEN [tag |-> "[SKIP]", rows |-> <<>>] ELSE Records(RecordsOf(j.val))
  IN IF r.relative_path \in DOMAIN store
       THEN Loaded(NormLoad(store[r.relative_path]))
       ELSE [tag |-> "[SKIP]", rows |-> <<>>]

\* ------------------------------------------------------------- state
VARIABLES
  raw,        \* the raw dumps below RAW: path -> [kind, content] (immutable inputs)
  manifest,   \* RAW/manifest.csv: [exists, rows]
  normalized, \* NORMAL/<ticker>.csv: ticker -> [exists, rows]
  out,        \* the diagnostics printed by the last call, in order
  call,       \* the function called last ("" before any call)
  raised,     \* the exception that left the last call ("" when it returned)
  data_raw_manifest, \* data/raw/manifest.csv: [exists, rows]
  data_normalized,   \* data/normalized/<ticker>.csv: ticker -> [exists, rows]
  tickers_used,      \* data/tickers_used.csv: [exists, rows]
  args,              \* the arguments of the last call that takes any
  prices_long,       \* data/processed/prices_long.parquet: [exists, rows]
  prices_with_returns, \* data/processed/prices_with_returns.parquet: [exists, rows]
  cli                \* the chunk loop of etl/cli.py: its locals and what it has done

vars == <<raw, manifest, normalized, out, call, raised, data_raw_manifest,
          data_normalized, tickers_used, args, prices_long,
          prices_with_returns, cli>>

Tickers == {FileNames[i].stem : i \in 1..Len(FileNames)}
NoCsv == [exists |-> FALSE, rows |-> <<>>]
Line(tag, ticker) == [tag |-> tag, ticker |-> ticker]

\* The text of a written manifest.csv: CSV, no JSON and no bracket in it.
ManifestText == <<"x">>

\* The files of RAW as os.walk lists them: the dumps, and manifest.csv once written.
Listing(store, mf) == DOMAIN store \cup (IF mf.exists THEN {MANIFEST} ELSE {})
FileAt(store, p) ==
  IF p \in DOMAIN store THEN store[p] ELSE [kind |-> "file", content |-> ManifestText]

\* for dirpath, _, files in os.walk(RAW): for fn in sorted(files)
Walk(store, mf) == SelectSeq(AllSlots, LAMBDA p : p \in Listing(store, mf))

\* The loop of classify_and_summarize from position i of the walk on:
\* [raised, rows].  os.path.getsize sits before the try block, so its OSError
\* leaves the function.
RECURSIVE ClassifyWalk(_, _, _, _)
ClassifyWalk(store, walk, i, rows) ==
  LET Visit(p, f) ==
        IF f.kind = "dangling" THEN [raised |-> "FileNotFoundError", rows |-> rows]
        ELSE ClassifyWalk(store, walk, i + 1, Append(rows, Entry(p, f)))
  IN IF i > Len(walk) THEN [raised |-> "", rows |-> rows]
     ELSE IF ~IsRawName(walk[i].fn) THEN ClassifyWalk(store, walk, i + 1, rows)
     ELSE Visit(walk[i], FileAt(store, walk[i]))

classify_and_summarize ==
  \E res \in {ClassifyWalk(raw, Walk(raw, manifest), 1, <<>>)} :
     /\ call' = "classify_and_summarize"
     /\ raised' = res.raised
     /\ IF res.raised = ""
          THEN /\ manifest' = [exists |-> TRUE, rows |-> res.rows]
               /\ out' = <<Line("Wrote manifest", "")>>
          ELSE /\ manifest' = manifest
               /\ out' = <<>>
     /\ UNCHANGED <<raw, normalized>>
     /\ UNCHANGED <<data_raw_manifest, data_normalized, tickers_used, args,
                    prices_long, prices_with_returns, cli>>

\* The loop of normalize_has_data from manifest row i on: [raised, normalized, out].
RECURSIVE NormalizeFrom(_, _, _, _, _)
NormalizeFrom(store, rows, i, norm, lines) ==
  IF i > Len(rows) THEN [raised |-> "", normalized |-> norm, out |-> lines]
  ELSE IF rows[i].status # "has_data" THEN NormalizeFrom(store, rows, i + 1, norm, lines)
  ELSE LET Written(ticker, res) ==
             IF res.tag = "WROTE"
               THEN [norm EXCEPT ![ticker] = [exists |-> TRUE, rows |-> res.rows]]
               ELSE norm
           Done(ticker, res) ==
             IF res.tag = "raise"
               THEN [raised |-> "TypeError", normalized |-> norm, out |-> lines]
               ELSE NormalizeFrom(store, rows, i + 1, Written(ticker, res),
                                  Append(lines, Line(res.tag, ticker)))
       IN Done(rows[i].ticker, NormalizeEntry(rows[i], store))

normalize_has_data ==
  \E res \in {NormalizeFrom(raw, manifest.rows, 1, normalized, <<>>)} :
     /\ call' = "normalize_has_data"
     /\ IF manifest.exists
          THEN /\ raised' = res.raised
               /\ normalized' = res.normalized
               /\ out' = res.out
          ELSE /\ raised' = "FileNotFoundError"
               /\ normalized' = normalized
               /\ out' = <<>>
     /\ UNCHANGED <<raw, manifest>>
     /\ UNCHANGED <<data_raw_manifest, data_normalized, tickers_used, args,
                    prices_long, prices_with_returns, cli>>

\* ------------------------------------------------------------- inputs
SeqsUpTo(S, n) == UNION {[1..k -> S] : k \in 0..n}

RECURSIVE Join(_)
Join(toks) ==
  IF Len(toks) <= 1 THEN toks ELSE <<Head(toks), ",">> \o Join(Tail(toks))
ListText(toks) == <<"[">> \o Join(toks) \o <<"]">>

\* Raw stores of a batch: up to MaxFiles dumps.
BatchContents ==
  {<<>>, <<" ">>, <<"x">>, <<"[", "]">>, <<"[", "n", "]">>,
   ListText(<<"rOk">>), ListText(<<"rStrDate">>), ListText(<<"rFrac">>),
   ListText(<<"rV0", "rNoClose">>),
   <<"{", "n", ",">> \o ListText(<<"rEarly">>) \o <<"}">>}
BatchFiles ==
  {[kind |-> "file", content |-> c] : c \in BatchContents}
    \cup {[kind |-> "noread", content |-> <<"x">>], [kind |-> "dangling", content |-> <<>>]}
Stores ==
  UNION {[D -> BatchFiles] : D \in {E \in SUBSET RawPaths : Cardinality(E) <= MaxFiles}}

\* Contents of a single dump: every text of up to MaxLen tokens, and every
\* record list of up to MaxRecs items, bare, inside a dict and inside non-JSON text.
ParseAlphabet == Punct \cup {"n", "rOk"}
ItemSeqs == SeqsUpTo(RecordAtoms \cup {"n"}, MaxRecs)
FileContents ==
  SeqsUpTo(ParseAlphabet, MaxLen)
    \cup {ListText(r) : r \in ItemSeqs}
    \cup {<<"{", "n", ",">> \o ListText(r) \o <<",">> \o ListText(<<"rOk">>) \o <<"}">> :
            r \in ItemSeqs}
    \cup {<<"x">> \o ListText(r) \o <<"x">> : r \in ItemSeqs}

\* A date-valued local: None, or a calendar day.
NoDate == [ok |-> FALSE, day |-> 0]
ADate(day) == [ok |-> TRUE, day |-> day]

\* Before any later stage has run: none of its files exists.
NoArgs == [min_rows |-> 0, min_start |-> NoDate, max_missing_days |-> [ok |-> FALSE, n |-> 0]]
Date(y, m, d) == [y |-> y, m |-> m, d |-> d]
NoCli ==
  [pc |-> "idle", s_date |-> Date(1, 1, 1), e_date |-> Date(1, 1, 1), batch_arg |-> 1,
   dry_run |-> FALSE, batch_years |-> 1, cur_start |-> Date(1, 1, 1),
   cur_end |-> Date(1, 1, 1), chunks |-> <<>>, log |-> <<>>, raised |-> ""]
NoLaterStage ==
  /\ tickers_used = NoCsv
  /\ args = NoArgs
  /\ prices_long = NoCsv
  /\ prices_with_returns = NoCsv
  /\ cli = NoCli

Fresh ==
  /\ manifest = [exists |-> FALSE, rows |-> <<>>]
  /\ normalized = [t \in Tickers |-> NoCsv]
  /\ out = <<>>
  /\ call = ""
  /\ raised = ""
  /\ data_raw_manifest = NoCsv
  /\ data_normalized = [t \in Tickers |-> NoCsv]
  /\ NoLaterStage

Init ==
  /\ raw \in Stores
  /\ Fresh

InitFile ==
  /\ raw \in {[p \in {Path("", Name("A", ".json"))} |-> f] :
                f \in {[kind |-> "file", content |-> c] : c \in FileContents}
                       \cup {[kind |-> "noread", content |-> <<"x">>]}}
  /\ Fresh

Next ==
  \/ classify_and_summarize
  \/ normalize_has_data

Spec == Init /\ [][Next]_vars
SpecFile == InitFile /\ [][Next]_vars

\* ------------------------------------------------------------- properties
Rows == manifest.rows
EntriesFor(p) == {i \in 1..Len(Rows) : Rows[i].relative_path = p}
Classified == call = "classify_and_summarize"
Normalized == call = "normalize_has_data"

\* A name that ends in .json or .txt, letter case apart.
EndsInJsonOrTxt(fn) == fn.ext \in {".json", ".txt", ".JSON"}

\* The text the classifier analyses and what it loads to.
TextOf(f) == Strip(f.content)
Analysed(f) == f.kind = "file" /\ TextOf(f) # <<>>

\* C1: once classify_and_summarize has been called, the manifest holds exactly
\* one entry for every file below RAW whose name ends in .json or .txt, whatever
\* the file is and whatever processing it raises, and no entry for any other file.
C1_OneEntryPerRawFile ==
  Classified =>
    /\ manifest.exists
    /\ \A p \in Listing(raw, manifest) :
         Cardinality(EntriesFor(p)) = IF EndsInJsonOrTxt(p.fn) THEN 1 ELSE 0
    /\ \A i \in 1..Len(Rows) : Rows[i].relative_path \in Listing(raw, manifest)

Statuses == {"has_data", "empty_file", "empty_array", "invalid_json", "error", "unknown"}

\* C2: every manifest entry has a status of the enumeration, and an entry whose
\* status is not has_data has row count 0 and empty start and end dates.
C2_StatusAndEmptyFields ==
  \A i \in 1..Len(Rows) :
    /\ Rows[i].status \in Statuses
    /\ Rows[i].status # "has_data" =>
         Rows[i].rows = 0 /\ Rows[i].start_date = "" /\ Rows[i].end_date = ""

\* A dict document without a list-valued member was classified.
C2_Witness ==
  \E i \in 1..Len(Rows) :
    LET f == raw[Rows[i].relative_path]
    IN /\ Rows[i].status = "invalid_json"
       /\ Analysed(f)
       /\ JsonLoads(TextOf(f)).ok
       /\ JsonLoads(TextOf(f)).val.t = "dict"
       /\ Len(JsonLoads(TextOf(f)).val.items) > 0

\* The trade-date value of a record as C3 words it: the value of the first of
\* the aliases tradeDate, d, date that the record carries.
Carries(it, k) == \E i \in 1..Len(it.keys) : it.keys[i] = k
FirstCarriedAlias(it) ==
  IF Carries(it, "tradeDate") THEN Get(it, "tradeDate")
  ELSE IF Carries(it, "d") THEN Get(it, "d")
  ELSE Get(it, "date")
AllDated(recs) ==
  /\ Len(recs) > 0
  /\ \A i \in 1..Len(recs) :
       /\ recs[i].t = "dict"
       /\ Carries(recs[i], "tradeDate") \/ Carries(recs[i], "d") \/ Carries(recs[i], "date")
       /\ utcdate(FirstCarriedAlias(recs[i])).ok
CarriedDates(recs) == {utcdate(FirstCarriedAlias(recs[i])).day : i \in 1..Len(recs)}
RecordListOf(f) == RecordsOf(LoadOrSalvage(TextOf(f)))

\* C3: a file whose record list has N > 0 records, each a mapping whose
\* trade-date value (first carried alias) converts to a UTC date, is classified
\* has_data with rows = N and start_date / end_date the minimum / maximum of
\* the converted dates, start_date <= end_date.
C3_DatedRecordsSummarised ==
  \A i \in 1..Len(Rows) :
    LET f == raw[Rows[i].relative_path]
        recs == RecordListOf(f).recs
    IN (Analysed(f) /\ RecordListOf(f).ok /\ AllDated(recs)) =>
         /\ Rows[i].status = "has_data"
         /\ Rows[i].rows = Len(recs)
         /\ Rows[i].start_date = isoformat(Min(CarriedDates(recs)))
         /\ Rows[i].end_date = isoformat(Max(CarriedDates(recs)))
         /\ IsoDay(Rows[i].start_date) <= IsoDay(Rows[i].end_date)

IsFirstListAt(j, k) ==
  /\ k \in 1..Len(j.items)
  /\ j.items[k].t = "list"
  /\ \A m \in 1..(k - 1) : j.items[m].t # "list"

\* C4: for a file that parses to a dict, the first list-valued value in
\* insertion order is the record list and the list rule is applied to it alone
\* (length 0: empty_array, else has_data with its length and its dates); a dict
\* with no list-valued value is invalid_json.
C4_DictUsesFirstList ==
  \A i \in 1..Len(Rows) :
    LET f == raw[Rows[i].relative_path]
        j == JsonLoads(TextOf(f))
    IN (Analysed(f) /\ j.ok /\ j.val.t = "dict") =>
         IF \E k \in 1..Len(j.val.items) : j.val.items[k].t = "list"
           THEN \E k \in 1..Len(j.val.items) :
                  /\ IsFirstListAt(j.val, k)
                  /\ Rows[i].rows = Len(j.val.items[k].items)
                  /\ Rows[i].status =
                       (IF Len(j.val.items[k].items) = 0 THEN "empty_array" ELSE "has_data")
                  /\ Rows[i].start_date = ListRule(j.val.items[k].items).start_date
                  /\ Rows[i].end_date = ListRule(j.val.items[k].items).end_date
           ELSE Rows[i].status = "invalid_json"

\* A dict with two list-valued values of different lengths was classified.
C4_Witness ==
  \E i \in 1..Len(Rows) :
    LET f == raw[Rows[i].relative_path]
        j == JsonLoads(TextOf(f))
    IN /\ Analysed(f) /\ j.ok /\ j.val.t = "dict"
       /\ \E k, m \in 1..Len(j.val.items) :
            /\ k < m
            /\ j.val.items[k].t = "list" /\ j.val.items[m].t = "list"
            /\ Len(j.val.items[k].items) # Len(j.val.items[m].items)

SummaryOf(r) == Summary(r.status, r.rows, r.start_date, r.end_date)
InvalidJson == Summary("invalid_json", 0, "", "")
Bracketed(txt) == SubSeq(txt, Find(txt, "["), RFind(txt, "]"))

\* C5: for non-empty content that does not parse as JSON: with both "[" and
\* "]" in it, the substring from the first "[" to the last "]" is parsed, shape
\* analysis follows when it parses and the file is invalid_json when it does
\* not; without one of the brackets the file is invalid_json.  Content that
\* parses directly gets the shape analysis of what it parsed to.
C5_BracketFallback ==
  \A i \in 1..Len(Rows) :
    LET f == raw[Rows[i].relative_path]
        txt == TextOf(f)
        direct == JsonLoads(txt)
    IN Analysed(f) =>
         IF direct.ok
           THEN SummaryOf(Rows[i]) =
                  (IF direct.val = None THEN InvalidJson ELSE ShapeOf(direct.val))
         ELSE IF Contains(txt, "[") /\ Contains(txt, "]")
           THEN IF JsonLoads(Bracketed(txt)).ok
                  THEN SummaryOf(Rows[i]) = ShapeOf(JsonLoads(Bracketed(txt)).val)
                  ELSE SummaryOf(Rows[i]) = InvalidJson
         ELSE SummaryOf(Rows[i]) = InvalidJson

\* Content that does not parse was salvaged from its bracketed substring.
C5_Witness ==
  \E i \in 1..Len(Rows) :
    LET f == raw[Rows[i].relative_path]
        txt == TextOf(f)
    IN /\ Analysed(f)
       /\ ~JsonLoads(txt).ok
       /\ Contains(txt, "[") /\ Contains(txt, "]")
       /\ JsonLoads(Bracketed(txt)).ok
       /\ Rows[i].status = "has_data"

\* C6: classification is idempotent: a run of classify_and_summarize on a raw
\* store that holds the manifest an earlier run wrote (inside RAW), the dumps
\* unchanged, returns and writes that same manifest again.
C6_ClassifyIdempotent ==
  [][(manifest.exists /\ call' = "classify_and_summarize") =>
       (raised' = "" /\ manifest' = manifest)]_vars

\* A second classification ran, after a normalization that followed the first.
C6_Witness ==
  /\ Classified
  /\ manifest.exists
  /\ Len(Rows) = MaxFiles
  /\ \E t \in Tickers : normalized[t].exists

\* C7: every row of every canonical CSV has a non-empty trade_date and a
\* non-null close, whatever the records of the source file hold.
C7_RowsHaveDateAndClose ==
  \A t \in Tickers : \A i \in 1..Len(normalized[t].rows) :
    /\ normalized[t].rows[i].trade_date # ""
    /\ ~IsNull(normalized[t].rows[i].close)

\* The rows normalize_has_data builds for a manifest entry.
BuiltRows(r) ==
  BuildRows(r.ticker, RecordsOf(NormLoad(raw[r.relative_path]).val).recs)
AllDiscarded(r) == BuiltRows(r) # <<>> /\ FilterRows(BuiltRows(r)) = <<>>
HasData == {i \in 1..Len(Rows) : Rows[i].status = "has_data"}

\* C8: a ticker all of whose built rows are discarded by the row filter gets no
\* canonical CSV from normalize_has_data.
C8_NoCsvWhenAllDiscarded ==
  (Normalized /\ manifest.exists) =>
    \A t \in Tickers :
      (/\ \E i \in HasData : Rows[i].ticker = t
       /\ \A i \in HasData : Rows[i].ticker = t => AllDiscarded(Rows[i]))
        => ~normalized[t].exists

\* The canonical close as C9 words it: close when present and non-null, else v
\* when present whatever its value, else null.
ClaimClose(it) ==
  IF Carries(it, "close") /\ Get(it, "close") # None THEN Get(it, "close")
  ELSE IF Carries(it, "v") THEN Get(it, "v")
  ELSE None
RECURSIVE ClaimRows(_, _)
ClaimRows(ticker, recs) ==
  IF recs = <<>> THEN <<>>
  ELSE IF Head(recs).t = "dict"
    THEN <<[BuildRow(ticker, Head(recs)) EXCEPT !.close = ClaimClose(Head(recs))]>>
           \o ClaimRows(ticker, Tail(recs))
    ELSE ClaimRows(ticker, Tail(recs))

\* C9: the canonical CSV of a has_data file is what filtering, coercion and
\* sorting leave of the rows whose close is the record's close when present and
\* non-null, otherwise its v when present (zero included), otherwise null.
C9_CloseFallsBackToV ==
  \A i \in HasData :
    LET r == Rows[i]
        recs == RecordsOf(NormLoad(raw[r.relative_path]).val).recs
    IN (Normalized /\ raised = "" /\ normalized[r.ticker].exists) =>
         normalized[r.ticker].rows = SortRows(CoerceRows(FilterRows(ClaimRows(r.ticker, recs))))

NoDangling == \A p \in DOMAIN raw : raw[p].kind # "dangling"

\* C10: whatever the dumps contain, classify_and_summarize returns with a
\* manifest entry for every .json/.txt file, and normalize_has_data returns
\* having processed (skipped, reported or written) every has_data entry.
C10_NoFileAbortsTheBatch ==
  NoDangling =>
    /\ Classified =>
         /\ raised = ""
         /\ \A p \in DOMAIN raw : EndsInJsonOrTxt(p.fn) => EntriesFor(p) # {}
    /\ (Normalized /\ manifest.exists) =>
         /\ raised = ""
         /\ Len(out) = Cardinality(HasData)

\* ------------------------------------------------------------- ticker selector
MaxEntries == 2

\* The manifest the classifier writes and the manifest the selector reads,
\* below the working directory both scripts take as ROOT.
ClassifierManifest == <<"data", "cse", "raw", "manifest.csv">>
SelectorManifest == <<"data", "raw", "manifest.csv">>
ManifestRead ==
  IF SelectorManifest = ClassifierManifest THEN manifest ELSE data_raw_manifest

\* parse_date: None for an empty string and for one fromisoformat rejects.
parse_date(s) ==
  IF s = "" THEN NoDate
  ELSE IF \E i \in 1..Len(IsoTable) : IsoTable[i] = s THEN ADate(IsoDay(s))
  ELSE NoDate
IsoOrEmpty(d) == IF d.ok THEN isoformat(d.day) ELSE ""

\* The include flag of one has_data entry: the three tests of main, in order.
IncludeOf_Le(rows_count, sd, ed, a) ==
  LET small == rows_count <= a.min_rows
      late == a.min_start.ok /\ (~sd.ok \/ sd.day > a.min_start.day)
      short == /\ a.max_missing_days.ok /\ a.max_missing_days.n # 0
               /\ sd.ok /\ ed.ok
               /\ ed.day - sd.day < a.max_missing_days.n
  IN IF small \/ late \/ short THEN "no" ELSE "yes"
IncludeOf(rows_count, sd, ed, a) ==
  LET small == rows_count < a.min_rows
      late == a.min_start.ok /\ (~sd.ok \/ sd.day > a.min_start.day)
      short == /\ a.max_missing_days.ok /\ a.max_missing_days.n # 0
               /\ sd.ok /\ ed.ok
               /\ ed.day - sd.day < a.max_missing_days.n
  IN IF small \/ late \/ short THEN "no" ELSE "yes"

SelectionRow(r, a) ==
  LET Row(sd, ed) ==
        [ticker |-> r.ticker, relative_path |-> r.relative_path, rows |-> r.rows,
         start_date |-> IsoOrEmpty(sd), end_date |-> IsoOrEmpty(ed),
         include |-> IncludeOf(r.rows, sd, ed, a)]
  IN Row(parse_date(r.start_date), parse_date(r.end_date))

\* The loop over the manifest rows: one selection row per has_data row.
RECURSIVE SelectRows(_, _)
SelectRows(rows, a) ==
  IF rows = <<>> THEN <<>>
  ELSE IF Head(rows).status # "has_data" THEN SelectRows(Tail(rows), a)
  ELSE <<SelectionRow(Head(rows), a)>> \o SelectRows(Tail(rows), a)

\* sorted(rows, key=(-rows, ticker)): a stable sort; tickers order as strings.
TickerOrder == <<"A", "B", "manifest", "notes">>
TickerRank(t) == CHOOSE i \in 1..Len(TickerOrder) : TickerOrder[i] = t
SelKeyLe(x, y) ==
  \/ x.rows > y.rows
  \/ x.rows = y.rows /\ TickerRank(x.ticker) <= TickerRank(y.ticker)
RECURSIVE InsertSelected(_, _)
InsertSelected(r, sorted) ==
  IF sorted = <<>> THEN <<r>>
  ELSE IF SelKeyLe(Head(sorted), r)
    THEN <<Head(sorted)>> \o InsertSelected(r, Tail(sorted))
    ELSE <<r>> \o sorted
RECURSIVE SortSelected(_)
SortSelected(rows) ==
  IF rows = <<>> THEN <<>>
  ELSE InsertSelected(rows[Len(rows)], SortSelected(SubSeq(rows, 1, Len(rows) - 1)))

\* The thresholds main is called with: --min-rows (default 50), --min-start
\* (default None), --max-missing-days (default None).
SelectArgs ==
  [min_rows : {50, 100},
   min_start : {NoDate, ADate(0)},
   max_missing_days : [ok : {TRUE}, n : {0, 2}] \cup {[ok |-> FALSE, n |-> 0]}]

select_tickers ==
  \E a \in SelectArgs :
    /\ call' = "select_tickers"
    /\ args' = a
    /\ \E mf \in {ManifestRead} :
         IF mf.exists
           THEN /\ raised' = ""
                /\ tickers_used' =
                     [exists |-> TRUE, rows |-> SortSelected(SelectRows(mf.rows, a))]
                /\ out' = <<Line("Wrote tickers_used", "")>>
           ELSE /\ raised' = "SystemExit"
                /\ tickers_used' = tickers_used
                /\ out' = <<>>
    /\ UNCHANGED <<raw, manifest, normalized, data_raw_manifest, data_normalized,
                   prices_long, prices_with_returns, cli>>

\* Manifests as the classifier writes them: has_data rows carry a record count
\* and either both dates or none; other rows carry no records.
SelEntries ==
  {[ticker |-> t, relative_path |-> Path("", Name(t, ".json")), status |-> "has_data",
    rows |-> n, start_date |-> d[1], end_date |-> d[2], filesize_bytes |-> 1] :
     t \in {"A", "B"}, n \in {99, 100},
     d \in {<<"", "">>, <<isoformat(0), isoformat(0)>>, <<isoformat(0), isoformat(2)>>,
            <<isoformat(2), isoformat(2)>>}}
  \cup {[ticker |-> "A", relative_path |-> Path("", Name("A", ".txt")),
         status |-> "empty_array", rows |-> 0, start_date |-> "", end_date |-> "",
         filesize_bytes |-> 1]}

InitSelect ==
  /\ raw = <<>>
  /\ manifest = [exists |-> FALSE, rows |-> <<>>]
  /\ normalized = [t \in Tickers |-> NoCsv]
  /\ out = <<>>
  /\ call = ""
  /\ raised = ""
  /\ data_raw_manifest \in
       {NoCsv} \cup {[exists |-> TRUE, rows |-> r] : r \in SeqsUpTo(SelEntries, MaxEntries)}
  /\ data_normalized = [t \in Tickers |-> NoCsv]
  /\ NoLaterStage

NextSelect == select_tickers
SpecSelect == InitSelect /\ [][NextSelect]_vars

Selected == call = "select_tickers" /\ raised = ""
HasDataRead == {i \in 1..Len(ManifestRead.rows) : ManifestRead.rows[i].status = "has_data"}
\* tickers_used.csv holds a row for entry e with this include flag.
Flagged(e, inc) ==
  \E j \in 1..Len(tickers_used.rows) :
     tickers_used.rows[j] =
       [ticker |-> e.ticker, relative_path |-> e.relative_path, rows |-> e.rows,
        start_date |-> e.start_date, end_date |-> e.end_date, include |-> inc]
YesNo(excluded) == IF excluded THEN "no" ELSE "yes"
SpanOf(e) == IsoDay(e.end_date) - IsoDay(e.start_date)
Dated(e) == e.start_date # "" /\ e.end_date # ""

\* The rule as stated: a missing start date excludes whether or not a
\* minimum-start threshold is configured, and with min_rows=100 an entry with
\* rows>=100 and a start date on or before the threshold is included whatever
\* its span.
ExcludedAsStated(e, a) ==
  \/ e.rows < a.min_rows
  \/ e.start_date = ""
  \/ a.min_start.ok /\ IsoDay(e.start_date) > a.min_start.day
  \/ a.max_missing_days.ok /\ Dated(e) /\ SpanOf(e) < a.max_missing_days.n
C11_AsStated ==
  Selected =>
    \A i \in HasDataRead :
       LET e == ManifestRead.rows[i]
       IN /\ Flagged(e, YesNo(ExcludedAsStated(e, args)))
          /\ args.min_rows = 100 =>
               /\ e.rows < 100 => Flagged(e, "no")
               /\ (/\ e.rows >= 100 /\ args.min_start.ok /\ e.start_date # ""
                   /\ IsoDay(e.start_date) <= args.min_start.day) => Flagged(e, "yes")

\* C11: the selector writes one row per has_data manifest entry, marked
\* include=yes unless the row count is below min_rows, or a minimum-start
\* threshold is configured and the start date is missing or later than it, or
\* a non-zero minimum span is configured, both dates are known and the span in
\* days is below it; with min_rows=100 every entry with rows<100 is excluded,
\* and every entry with rows>=100 and a start date on or before the threshold
\* is included unless its span is below a configured non-zero minimum span.
Excluded(e, a) ==
  \/ e.rows < a.min_rows
  \/ a.min_start.ok /\ (e.start_date = "" \/ IsoDay(e.start_date) > a.min_start.day)
  \/ /\ a.max_missing_days.ok /\ a.max_missing_days.n # 0
     /\ Dated(e) /\ SpanOf(e) < a.max_missing_days.n
C11_IncludeRule ==
  Selected =>
    /\ Len(tickers_used.rows) = Cardinality(HasDataRead)
    /\ \A i \in HasDataRead :
         LET e == ManifestRead.rows[i]
         IN /\ Flagged(e, YesNo(Excluded(e, args)))
            /\ args.min_rows = 100 =>
                 /\ e.rows < 100 => Flagged(e, "no")
                 /\ (/\ e.rows >= 100 /\ args.min_start.ok /\ e.start_date # ""
                     /\ IsoDay(e.start_date) <= args.min_start.day
                     /\ ~(/\ args.max_missing_days.ok /\ args.max_missing_days.n # 0
                          /\ Dated(e) /\ SpanOf(e) < args.max_missing_days.n))
                    => Flagged(e, "yes")
C11_Witness ==
  /\ Selected
  /\ args.min_rows = 100
  /\ \E i \in HasDataRead, j \in HasDataRead :
        /\ ManifestRead.rows[i].start_date = ""
        /\ Flagged(ManifestRead.rows[i], "yes")
        /\ ManifestRead.rows[j].rows < 100
        /\ Flagged(ManifestRead.rows[j], "no")

\* ------------------------------------------------------------- assembler
MaxSelected == 2
MaxCsvRows == 2

\* The directory the normalizer writes <ticker>.csv into and the directory the
\* assembler reads <ticker>.csv from, below the working directory.
NormalizerNormal == <<"data", "cse", "normalized">>
AssemblerNormal == <<"data", "normalized">>
NormalRead ==
  IF AssemblerNormal = NormalizerNormal THEN normalized ELSE data_normalized

\* load_selected_tickers: the ticker of every row whose include is "yes" in
\* any letter case (the selector writes "yes" and "no"), in file order.
RECURSIVE load_selected_tickers(_)
load_selected_tickers(rows) ==
  IF rows = <<>> THEN <<>>
  ELSE IF Head(rows).include = "yes"
    THEN <<Head(rows).ticker>> \o load_selected_tickers(Tail(rows))
    ELSE load_selected_tickers(Tail(rows))

\* read_csv(path, parse_dates=["trade_date"]) then df["ticker"] = ticker: one
\* frame row per CSV row, the date text parsed to a calendar day.
FrameRow(ticker, r) ==
  [ticker |-> ticker, trade_date |-> IsoDay(r.trade_date), open |-> r.open,
   high |-> r.high, low |-> r.low, close |-> r.close, turnover |-> r.turnover,
   share_volume |-> r.share_volume, trade_volume |-> r.trade_volume]
ReadFrame(ticker, csv) == [i \in 1..Len(csv.rows) |-> FrameRow(ticker, csv.rows[i])]

\* The loop of assemble: parts holds one frame per ticker whose file exists.
RECURSIVE Parts(_, _)
Parts(tickers, dir) ==
  IF tickers = <<>> THEN <<>>
  ELSE IF ~dir[Head(tickers)].exists THEN Parts(Tail(tickers), dir)
  ELSE <<ReadFrame(Head(tickers), dir[Head(tickers)])>> \o Parts(Tail(tickers), dir)

\* The warnings of the loop, one per ticker without a file.
RECURSIVE Warnings(_, _)
Warnings(tickers, dir) ==
  IF tickers = <<>> THEN <<>>
  ELSE IF ~dir[Head(tickers)].exists
    THEN <<Line("Warning", Head(tickers))>> \o Warnings(Tail(tickers), dir)
    ELSE Warnings(Tail(tickers), dir)

\* pd.concat(parts, ignore_index=True)
RECURSIVE Concat(_)
Concat(parts) == IF parts = <<>> THEN <<>> ELSE Head(parts) \o Concat(Tail(parts))

\* sort_values(["ticker", "trade_date"]): rows of equal key keep their order.
PanelKeyLe(x, y) ==
  \/ TickerRank(x.ticker) < TickerRank(y.ticker)
  \/ x.ticker = y.ticker /\ x.trade_date <= y.trade_date
RECURSIVE InsertPanel(_, _)
InsertPanel(r, sorted) ==
  IF sorted = <<>> THEN <<r>>
  ELSE IF PanelKeyLe(Head(sorted), r)
    THEN <<Head(sorted)>> \o InsertPanel(r, Tail(sorted))
    ELSE <<r>> \o sorted
RECURSIVE SortPanel(_)
SortPanel(rows) ==
  IF rows = <<>> THEN <<>>
  ELSE InsertPanel(rows[Len(rows)], SortPanel(SubSeq(rows, 1, Len(rows) - 1)))

\* __main__ of assemble_prices.py: load_selected_tickers, then assemble.
assemble_prices ==
  /\ call' = "assemble_prices"
  /\ IF ~tickers_used.exists
       THEN /\ raised' = "FileNotFoundError"
            /\ out' = <<>>
            /\ prices_long' = prices_long
       ELSE \E tickers \in {load_selected_tickers(tickers_used.rows)} :
            \E parts \in {Parts(tickers, NormalRead)} :
              /\ raised' = IF parts = <<>> THEN "SystemExit" ELSE ""
              /\ out' = Warnings(tickers, NormalRead)
              /\ prices_long' =
                   IF parts = <<>> THEN prices_long
                   ELSE [exists |-> TRUE, rows |-> SortPanel(Concat(parts))]
  /\ UNCHANGED <<raw, manifest, normalized, data_raw_manifest, data_normalized,
                 tickers_used, args, prices_with_returns, cli>>

\* ------------------------------------------------------------- daily returns
\* A return cell: null (NaN), infinite, or the finite value it was computed
\* from: (cur - prev) / prev for "pct", log(cur / prev) for "log", the closes
\* counted in tenths.
RNull == [t |-> "null", cur |-> 0, prev |-> 0]
RVal(t, cur, prev) == [t |-> t, cur |-> cur, prev |-> prev]
Tenths(v) == 10 * v.n + v.d

\* g.sort_values('trade_date') inside one ticker's group: ascending in
\* trade_date; the order of rows sharing a date is not specified (the default
\* sort is not stable), so they come in their panel order or in its reverse.
RECURSIVE InsertByDate(_, _, _)
InsertByDate(r, sorted, keep) ==
  IF sorted = <<>> THEN <<r>>
  ELSE IF \/ Head(sorted).trade_date < r.trade_date
          \/ keep /\ Head(sorted).trade_date = r.trade_date
    THEN <<Head(sorted)>> \o InsertByDate(r, Tail(sorted), keep)
    ELSE <<r>> \o sorted
RECURSIVE SortByDate(_, _)
SortByDate(rows, keep) ==
  IF rows = <<>> THEN <<>>
  ELSE InsertByDate(rows[Len(rows)], SortByDate(SubSeq(rows, 1, Len(rows) - 1), keep), keep)

\* The close column after the forward fill pct_change applies first when its
\* fill_method is 'pad': a missing close takes the last close before it.
RECURSIVE Padded(_, _)
Padded(g, i) ==
  IF i = 0 THEN JNull
  ELSE IF ~IsNull(g[i].close) THEN g[i].close
  ELSE Padded(g, i - 1)

\* g['close'].pct_change() at row i: cur / prev - 1, where a division by zero
\* gives inf (NaN for 0 / 0) and a missing operand gives NaN.
PctOf(cur, prev) ==
  IF IsNull(cur) \/ IsNull(prev) THEN RNull
  ELSE IF Tenths(prev) = 0 THEN (IF Tenths(cur) = 0 THEN RNull ELSE RVal("inf", 0, 0))
  ELSE RVal("pct", Tenths(cur), Tenths(prev))
pct_change(g, i, pad) ==
  IF i = 1 THEN RNull
  ELSE IF pad THEN PctOf(Padded(g, i), Padded(g, i - 1))
  ELSE PctOf(g[i].close, g[i - 1].close)

\* np.log(close / close.shift(1)) with inf and -inf replaced by NaN: the ratio
\* is NaN for a missing operand and for 0 / 0, inf for a zero divisor, and its
\* log is -inf for a zero ratio.
safe_log_return(g, i) ==
  IF i = 1 THEN RNull
  ELSE IF IsNull(g[i].close) \/ IsNull(g[i - 1].close) THEN RNull
  ELSE IF Tenths(g[i - 1].close) = 0 \/ Tenths(g[i].close) = 0 THEN RNull
  ELSE RVal("log", Tenths(g[i].close), Tenths(g[i - 1].close))

ReturnRow(g, i, pad) ==
  [ticker |-> g[i].ticker, trade_date |-> g[i].trade_date, close |-> g[i].close,
   close_pct_return |-> pct_change(g, i, pad),
   close_log_return |-> safe_log_return(g, i)]
make_returns(g, pad) == [i \in 1..Len(g) |-> ReturnRow(g, i, pad)]

\* groupby('ticker', group_keys=False).apply(make_returns): the groups in
\* ticker order, each the panel rows of one ticker.
GroupOf(rows, t) == SelectSeq(rows, LAMBDA r : r.ticker = t)
RECURSIVE ApplyGroups(_, _, _, _)
ApplyGroups(rows, k, pad, keep) ==
  IF k > Len(TickerOrder) THEN <<>>
  ELSE make_returns(SortByDate(GroupOf(rows, TickerOrder[k]), keep), pad)
         \o ApplyGroups(rows, k + 1, pad, keep)

\* main of compute_daily_returns.py.  pad: whether this pandas forward-fills
\* in pct_change (its default before 3.0); keep: the order of equal dates.
compute_daily_returns ==
  /\ call' = "compute_daily_returns"
  /\ IF ~prices_long.exists
       THEN /\ raised' = "FileNotFoundError"
            /\ prices_with_returns' = prices_with_returns
       ELSE \E pad \in BOOLEAN, keep \in BOOLEAN :
              /\ raised' = ""
              /\ prices_with_returns' =
                   [exists |-> TRUE, rows |-> ApplyGroups(prices_long.rows, 1, pad, keep)]
  /\ out' = <<>>
  /\ UNCHANGED <<raw, manifest, normalized, data_raw_manifest, data_normalized,
                 tickers_used, args, prices_long, cli>>

\* Canonical CSVs as the normalizer writes them (rows ascending in trade_date,
\* dates and closes possibly repeated, a close possibly empty, possibly no row
\* at all) and selection files as the selector writes them.
CsvRow(ticker, day, close) ==
  [ticker |-> ticker, trade_date |-> isoformat(day), open |-> JNull, high |-> JNull,
   low |-> JNull, close |-> close, turnover |-> JNull, share_volume |-> JNull,
   trade_volume |-> JNull]
CsvsOf(ticker, days, closes) ==
  {NoCsv} \cup
  {[exists |-> TRUE, rows |-> r] :
     r \in {q \in SeqsUpTo({CsvRow(ticker, d, c) : d \in days, c \in closes}, MaxCsvRows) :
              \A i \in 1..(Len(q) - 1) :
                 IsoDay(q[i].trade_date) <= IsoDay(q[i + 1].trade_date)}}
Selections ==
  {NoCsv} \cup
  {[exists |-> TRUE, rows |-> r] :
     r \in {q \in SeqsUpTo({[ticker |-> t, relative_path |-> Path("", Name(t, ".json")),
                                rows |-> 100, start_date |-> "", end_date |-> "",
                                include |-> inc] : t \in {"A", "B"}, inc \in {"yes", "no"}},
                           MaxSelected) : SortSelected(q) = q}}

InitPanel ==
  /\ raw = <<>>
  /\ manifest = [exists |-> FALSE, rows |-> <<>>]
  /\ normalized = [t \in Tickers |-> NoCsv]
  /\ out = <<>>
  /\ call = ""
  /\ raised = ""
  /\ data_raw_manifest = NoCsv
  /\ \E a \in CsvsOf("A", {0, 1}, {JNull, JNum(0), JNum(5)}),
        b \in CsvsOf("B", {1}, {JNum(0), JNum(5)}) :
        data_normalized = [t \in Tickers |-> IF t = "A" THEN a ELSE IF t = "B" THEN b ELSE NoCsv]
  /\ tickers_used \in Selections
  /\ args = NoArgs
  /\ prices_long = NoCsv
  /\ prices_with_returns = NoCsv
  /\ cli = NoCli

NextPanel ==
  \/ assemble_prices
  \/ compute_daily_returns
SpecPanel == InitPanel /\ [][NextPanel]_vars

\* C12: the assembled panel is strictly ascending in (ticker, trade_date):
\* sorted by ticker then trade_date with at most one row per pair, whatever
\* the selection file and the canonical CSVs hold.
PanelKeyLt(x, y) ==
  \/ TickerRank(x.ticker) < TickerRank(y.ticker)
  \/ x.ticker = y.ticker /\ x.trade_date < y.trade_date
C12_PanelStrictlyAscending ==
  prices_long.exists =>
    \A i \in 1..(Len(prices_long.rows) - 1) :
       PanelKeyLt(prices_long.rows[i], prices_long.rows[i + 1])

\* C13: the assembler leaves with SystemExit and writes no panel exactly when
\* the selected tickers together yield no row (none selected, every file
\* missing, or every file read empty); a ticker without a file next to one
\* that yields rows is skipped with a warning and the panel is written.
AssembleRan == call = "assemble_prices" /\ tickers_used.exists
SelectedTickers ==
  {tickers_used.rows[i].ticker :
     i \in {j \in 1..Len(tickers_used.rows) : tickers_used.rows[j].include = "yes"}}
Yielding == {t \in SelectedTickers : NormalRead[t].exists /\ NormalRead[t].rows # <<>>}
Missing == {t \in SelectedTickers : ~NormalRead[t].exists}
C13_AbortsExactlyOnZeroRows ==
  AssembleRan =>
    /\ (raised = "SystemExit" /\ ~prices_long.exists) <=> Yielding = {}
    /\ (Yielding # {} /\ Missing # {}) =>
         /\ raised = ""
         /\ prices_long.exists
         /\ \A t \in Missing : \E i \in 1..Len(out) : out[i] = Line("Warning", t)

\* C14: in the returns output both returns are null on the first row of each
\* ticker and on every row whose preceding row of the same ticker has a zero
\* or missing close, and a return that is not null is computed from the row's
\* close and the close of the preceding row of the same ticker.
Ret == prices_with_returns.rows
FirstOfTicker(i) == i = 1 \/ Ret[i - 1].ticker # Ret[i].ticker
NoPriorClose(i) ==
  \/ FirstOfTicker(i)
  \/ IsNull(Ret[i - 1].close)
  \/ Tenths(Ret[i - 1].close) = 0
FromPrecedingRow(x, i) ==
  x.t \in {"pct", "log"} =>
    /\ ~FirstOfTicker(i)
    /\ ~IsNull(Ret[i].close) /\ x.cur = Tenths(Ret[i].close)
    /\ ~IsNull(Ret[i - 1].close) /\ x.prev = Tenths(Ret[i - 1].close)
C14_ReturnsNullWithoutPriorClose ==
  prices_with_returns.exists =>
    \A i \in 1..Len(Ret) :
       /\ NoPriorClose(i) =>
            Ret[i].close_pct_return = RNull /\ Ret[i].close_log_return = RNull
       /\ FromPrecedingRow(Ret[i].close_pct_return, i)
       /\ FromPrecedingRow(Ret[i].close_log_return, i)

\* ------------------------------------------------------------- etl/cli.py
MaxYears == 2

\* datetime.date: the proleptic Gregorian calendar from year 1 to MAXYEAR.
MAXYEAR == 9999
IsLeap(y) == y % 4 = 0 /\ (y % 100 # 0 \/ y % 400 = 0)
DaysIn(y, m) ==
  IF m = 2 THEN (IF IsLeap(y) THEN 29 ELSE 28)
  ELSE IF m \in {4, 6, 9, 11} THEN 30 ELSE 31
ValidDate(y, m, d) ==
  /\ y \in 1..MAXYEAR /\ m \in 1..12 /\ d >= 1 /\ d <= DaysIn(y, m)
DaysBeforeYear(y) == 365 * (y - 1) + (y - 1) \div 4 - (y - 1) \div 100 + (y - 1) \div 400
RECURSIVE DaysBeforeMonth(_, _)
DaysBeforeMonth(y, m) ==
  IF m = 1 THEN 0 ELSE DaysBeforeMonth(y, m - 1) + DaysIn(y, m - 1)
toordinal(dt) == DaysBeforeYear(dt.y) + DaysBeforeMonth(dt.y, dt.m) + dt.d
fromordinal(n) ==
  LET InYear(y) ==
        LET InMonth(m) == Date(y, m, n - DaysBeforeYear(y) - DaysBeforeMonth(y, m))
        IN InMonth(CHOOSE m \in 1..12 :
                     /\ DaysBeforeMonth(y, m) < n - DaysBeforeYear(y)
                     /\ n - DaysBeforeYear(y) <= DaysBeforeMonth(y, m) + DaysIn(y, m))
  IN InYear(CHOOSE y \in (n \div 366)..(n \div 365 + 1) :
              DaysBeforeYear(y) < n /\ n <= DaysBeforeYear(y + 1))
MaxOrdinal == toordinal(Date(MAXYEAR, 12, 31))

\* date + timedelta(days=k): [ok, date]; ok = FALSE is OverflowError (the
\* timedelta is out of range, or the sum is).
TimedeltaMax == 999999999
AddDays(dt, k) ==
  LET Sum(n) ==
        IF k > TimedeltaMax \/ k < -TimedeltaMax \/ n < 1 \/ n > MaxOrdinal
          THEN [ok |-> FALSE, date |-> dt]
          ELSE [ok |-> TRUE, date |-> fromordinal(n)]
  IN Sum(toordinal(dt) + k)
DateLe(a, b) == toordinal(a) <= toordinal(b)

\* The try block of the loop body and its except branch: [ok, date], with
\* ok = FALSE when the except branch itself raises OverflowError.
ChunkEnd(cur_start, e_date, batch_years) ==
  LET Clip(end) == IF DateLe(end, e_date) THEN end ELSE e_date
      Fallback(shifted) ==
        IF shifted.ok
          THEN [ok |-> TRUE, date |-> Clip(AddDays(shifted.date, -1).date)]
          ELSE [ok |-> FALSE, date |-> cur_start]
  IN IF ValidDate(cur_start.y + batch_years, cur_start.m, cur_start.d)
       THEN [ok |-> TRUE,
             date |-> Clip(AddDays(Date(cur_start.y + batch_years, cur_start.m,
                                        cur_start.d), -1).date)]
       ELSE Fallback(AddDays(cur_start, 365 * batch_years))

\* The callables pick_callable finds: fetch_cse_chart in the download module,
\* compute_adj_from_yahoo in the normalize module, and in the load module the
\* first public callable in dir() order, the imported create_engine.
\* params: the parameter names; required: those without a default; maxpos:
\* how many positional arguments the signature takes.
fetch_cse_chart ==
  [name |-> "fetch_cse_chart", params |-> <<"symbol", "start", "end">>,
   required |-> 1, maxpos |-> 3]
compute_adj_from_yahoo ==
  [name |-> "compute_adj_from_yahoo", params |-> <<"df_prices", "df_yahoo">>,
   required |-> 2, maxpos |-> 2]
create_engine ==
  [name |-> "create_engine", params |-> <<"url", "kwargs">>, required |-> 1, maxpos |-> 1]

HasParam(func, p) == \E i \in 1..Len(func.params) : func.params[i] = p
\* The candidate call patterns, in order: keywords when a parameter is named
\* ticker, symbol or stock, then the five positional patterns.
KwNames(func) ==
  (IF HasParam(func, "ticker") THEN <<"ticker">>
   ELSE IF HasParam(func, "symbol") THEN <<"symbol">> ELSE <<"stock">>)
  \o (IF HasParam(func, "start") THEN <<"start">>
      ELSE IF HasParam(func, "start_date") THEN <<"start_date">> ELSE <<>>)
  \o (IF HasParam(func, "end") THEN <<"end">>
      ELSE IF HasParam(func, "end_date") THEN <<"end_date">> ELSE <<>>)
Pos(first, n) == [typ |-> "pos", first |-> first, n |-> n, names |-> <<>>]
Candidates(func) ==
  (IF HasParam(func, "ticker") \/ HasParam(func, "symbol") \/ HasParam(func, "stock")
     THEN <<[typ |-> "kwargs", first |-> "ticker", n |-> Len(KwNames(func)),
             names |-> KwNames(func)]>>
     ELSE <<>>)
  \o <<Pos("ticker", 3), Pos("ticker", 2), Pos("ticker", 1), Pos("s_date", 2),
       Pos("s_date", 1)>>

\* Whether the arguments bind to the signature (a TypeError is raised before
\* the body runs when they do not).
Binds(func, c) ==
  IF c.typ = "kwargs"
    THEN /\ \A i \in 1..Len(c.names) : HasParam(func, c.names[i])
         /\ \A j \in 1..func.required : \E i \in 1..Len(c.names) : c.names[i] = func.params[j]
    ELSE c.n >= func.required /\ c.n <= func.maxpos

\* What the body does once the arguments are bound: "return", or the exception
\* it raises.  fetch_cse_chart posts the request and raises RuntimeError for a
\* body that is not JSON, HTTPError for a non-2xx status and KeyError for an
\* empty record list; compute_adj_from_yahoo subscripts its second argument (a
\* date: TypeError) or calls .merge on its first (a date: AttributeError);
\* create_engine is library code that returns or raises.
Body(func, c, env) ==
  CASE func.name = "fetch_cse_chart" ->
         (CASE env = "non_json" -> "RuntimeError"
            [] env = "http_error" -> "HTTPError"
            [] env = "no_records" -> "KeyError"
            [] OTHER -> "return")
    [] func.name = "compute_adj_from_yahoo" ->
         (IF c.first = "ticker" THEN "TypeError" ELSE "AttributeError")
    [] OTHER -> env

\* The except clause that goes on to the next candidate.
Continues_HttpToo(exc) == exc \in {"TypeError", "HTTPError"}
Continues(exc) == exc = "TypeError"

\* choose_and_call from candidate i on: [exc, events], exc = "" when a call
\* returned; events lists "post" and the server's answer for every request sent.
RECURSIVE ChooseFrom(_, _, _, _, _)
ChooseFrom(func, cands, i, env, last_exc) ==
  IF i > Len(cands)
    THEN [exc |-> IF last_exc # "" THEN last_exc ELSE "RuntimeError", events |-> <<>>]
  ELSE LET Sent == IF Binds(func, cands[i]) /\ func.name = "fetch_cse_chart"
                     THEN <<"post", env>> ELSE <<>>
           After(outcome) ==
             IF outcome = "return" THEN [exc |-> "", events |-> Sent]
             ELSE IF Continues(outcome)
               THEN LET Rest(r) == [exc |-> r.exc, events |-> Sent \o r.events]
                    IN Rest(ChooseFrom(func, cands, i + 1, env, outcome))
             ELSE [exc |-> outcome, events |-> Sent]
       IN After(IF Binds(func, cands[i]) THEN Body(func, cands[i], env) ELSE "TypeError")
choose_and_call(func, env) == ChooseFrom(func, Candidates(func), 1, env, "")

\* What the server answers to a request.
Responses == {"rows", "no_rows", "no_records", "http_error", "non_json"}

\* main up to the loop: the start <= end test and max(1, batch_years).
main_start ==
  /\ cli.pc = "start"
  /\ IF DateLe(cli.s_date, cli.e_date)
       THEN cli' = [cli EXCEPT !.pc = "loop", !.cur_start = cli.s_date,
                               !.batch_years = IF cli.batch_arg > 1 THEN cli.batch_arg ELSE 1]
       ELSE cli' = [cli EXCEPT !.pc = "exit", !.raised = "SystemExit"]
  /\ UNCHANGED <<raw, manifest, normalized, out, call, raised, data_raw_manifest,
                 data_normalized, tickers_used, args, prices_long, prices_with_returns>>

\* The loop test and the computation of cur_end.
next_chunk ==
  /\ cli.pc = "loop"
  /\ IF ~DateLe(cli.cur_start, cli.e_date)
       THEN cli' = [cli EXCEPT !.pc = "exit"]
       ELSE \E end \in {ChunkEnd(cli.cur_start, cli.e_date, cli.batch_years)} :
              IF end.ok
                THEN cli' = [cli EXCEPT !.pc = "download", !.cur_end = end.date,
                               !.chunks = Append(@, <<cli.cur_start, end.date>>),
                               !.log = Append(@, "chunk")]
                ELSE cli' = [cli EXCEPT !.pc = "exit", !.raised = "OverflowError"]
  /\ UNCHANGED <<raw, manifest, normalized, out, call, raised, data_raw_manifest,
                 data_normalized, tickers_used, args, prices_long, prices_with_returns>>

\* run_single_chunk up to its first return: the download call, the slice to
\* the chunk's dates and the test for an empty frame.
download_chunk ==
  /\ cli.pc = "download"
  /\ \E resp \in Responses :
     \E res \in {choose_and_call(fetch_cse_chart, resp)} :
        cli' = [cli EXCEPT !.log = @ \o res.events,
                  !.raised = res.exc,
                  !.pc = IF res.exc # "" THEN "exit"
                         ELSE IF resp = "rows" THEN "normalize" ELSE "advance"]
  /\ UNCHANGED <<raw, manifest, normalized, out, call, raised, data_raw_manifest,
                 data_normalized, tickers_used, args, prices_long, prices_with_returns>>

\* The normalize step: its failure is printed and the raw frame kept; then the
\* dry-run branch saves a sample CSV and returns.
normalize_chunk ==
  /\ cli.pc = "normalize"
  /\ \E res \in {choose_and_call(compute_adj_from_yahoo, "")} :
        cli' = [cli EXCEPT !.log = Append(@, IF res.exc = "" THEN "normalize"
                                             ELSE "normalize failed"),
                  !.pc = IF cli.dry_run THEN "advance" ELSE "load"]
  /\ UNCHANGED <<raw, manifest, normalized, out, call, raised, data_raw_manifest,
                 data_normalized, tickers_used, args, prices_long, prices_with_returns>>

\* The load step: its failure is printed and raised again.
load_chunk ==
  /\ cli.pc = "load"
  /\ \E lib \in {"return", "ArgumentError"} :
     \E res \in {choose_and_call(create_engine, lib)} :
        cli' = [cli EXCEPT !.log = Append(@, "load"),
                  !.raised = res.exc,
                  !.pc = IF res.exc # "" THEN "exit" ELSE "advance"]
  /\ UNCHANGED <<raw, manifest, normalized, out, call, raised, data_raw_manifest,
                 data_normalized, tickers_used, args, prices_long, prices_with_returns>>

\* cur_start = cur_end + timedelta(days=1)
advance ==
  /\ cli.pc = "advance"
  /\ \E next \in {AddDays(cli.cur_end, 1)} :
        IF next.ok
          THEN cli' = [cli EXCEPT !.pc = "loop", !.cur_start = next.date]
          ELSE cli' = [cli EXCEPT !.pc = "exit", !.raised = "OverflowError"]
  /\ UNCHANGED <<raw, manifest, normalized, out, call, raised, data_raw_manifest,
                 data_normalized, tickers_used, args, prices_long, prices_with_returns>>

\* The command lines: --start and --end around a leap year or both in the
\* last year of the calendar, --batch-years below 1, small and large, --dry-run
\* or not.
CliDates ==
  {dt \in [y : (2019..(2019 + MaxYears)) \cup {MAXYEAR}, m : {1, 2, 3, 12}, d : {1, 28, 29, 31}] :
     /\ ValidDate(dt.y, dt.m, dt.d)
     /\ <<dt.m, dt.d>> \in {<<1, 1>>, <<2, 28>>, <<2, 29>>, <<3, 1>>, <<12, 31>>}
     /\ dt.y = MAXYEAR => dt.m \in {1, 12}}
BatchYears == {-1, 0, 1, 2, 8000}

InitCli ==
  /\ raw = <<>>
  /\ manifest = [exists |-> FALSE, rows |-> <<>>]
  /\ normalized = [t \in Tickers |-> NoCsv]
  /\ out = <<>>
  /\ call = ""
  /\ raised = ""
  /\ data_raw_manifest = NoCsv
  /\ data_normalized = [t \in Tickers |-> NoCsv]
  /\ tickers_used = NoCsv
  /\ args = NoArgs
  /\ prices_long = NoCsv
  /\ prices_with_returns = NoCsv
  /\ \E s \in CliDates, b \in BatchYears, dry \in BOOLEAN :
     \E e \in {x \in CliDates : (x.y = MAXYEAR) = (s.y = MAXYEAR)} :
        cli = [NoCli EXCEPT !.pc = "start", !.s_date = s, !.e_date = e,
                            !.batch_arg = b, !.dry_run = dry]

NextCli ==
  \/ main_start
  \/ next_chunk
  \/ download_chunk
  \/ normalize_chunk
  \/ load_chunk
  \/ advance
SpecCli == InitCli /\ [][NextCli]_vars

\* C15: a download is never retried.  Within one chunk at most one call of the
\* download callable sends a request, and after a non-2xx answer or an answer
\* that is not JSON nothing more happens in the run: the error leaves
\* choose_and_call, run_single_chunk and main (HTTPError, RuntimeError), so no
\* further call pattern, no normalize or load step and no later chunk follows.
Log == cli.log
C15_DownloadNeverRetried ==
  /\ \A i \in 1..Len(Log), j \in 1..Len(Log) :
        (i < j /\ Log[i] = "post" /\ Log[j] = "post") =>
           \E k \in (i + 1)..(j - 1) : Log[k] = "chunk"
  /\ \A i \in 1..Len(Log) :
        Log[i] \in {"http_error", "non_json"} =>
           /\ i = Len(Log)
           /\ cli.pc = "exit"
           /\ cli.raised = IF Log[i] = "http_error" THEN "HTTPError" ELSE "RuntimeError"
C15_Witness ==
  /\ Len(cli.chunks) >= 2
  /\ Log # <<>> /\ Log[Len(Log)] = "http_error"
  /\ \E i \in 1..Len(Log) : Log[i] = "load"
  /\ cli.pc = "exit"

\* C17: the chunks processed start at s_date, each begins the day after the
\* one before ends, each satisfies cur_start <= cur_end <= e_date, and unless
\* a chunk's own failure (or the start > end test) ends the run, the loop
\* ends with a last chunk that ends at e_date.
Chunks == cli.chunks
ChunkFailures == {"HTTPError", "RuntimeError", "KeyError", "ArgumentError"}
C17_ChunksPartition ==
  /\ Chunks # <<>> => Chunks[1][1] = cli.s_date
  /\ \A i \in 1..Len(Chunks) :
        DateLe(Chunks[i][1], Chunks[i][2]) /\ DateLe(Chunks[i][2], cli.e_date)
  /\ \A i \in 1..(Len(Chunks) - 1) :
        toordinal(Chunks[i + 1][1]) = toordinal(Chunks[i][2]) + 1
  /\ (cli.pc = "exit" /\ cli.raised \notin ChunkFailures \cup {"SystemExit"}) =>
        Chunks # <<>> /\ Chunks[Len(Chunks)][2] = cli.e_date

\* ------------------------------------------------------------- the stages in a row
\* The batch stages run one after another from one working directory, on a
\* checkout that holds raw dumps and no file written by any stage.
NextPipeline ==
  \/ classify_and_summarize
  \/ normalize_has_data
  \/ select_tickers
  \/ assemble_prices
  \/ compute_daily_returns
SpecPipeline == Init /\ [][NextPipeline]_vars

\* C16: each stage reads what the stage before it wrote: the manifest the
\* selector reads is the manifest the classifier wrote (so the selector finds
\* a manifest once the classifier has written one), and the <ticker>.csv the
\* assembler reads is the one the normalizer wrote.
C16_StagesReadWhatWasWritten ==
  /\ manifest.exists => ManifestRead = manifest
  /\ (manifest.exists /\ call = "select_tickers") => raised # "SystemExit"
  /\ \A t \in Tickers : normalized[t].exists => NormalRead[t] = normalized[t]

====
